---- MODULE Spec2Model ----
(***************************************************************************)
(* State-machine model of src/app.py (vdlp-helper): the job store kept in  *)
(* downloads/database.json, the artifact files and HLS directories on      *)
(* disk, and the threads that touch them: the request handlers (home,      *)
(* video_page, rotate), the download worker with its detached retrieval    *)
(* thread, the detached ffmpeg packaging process and the cleanup loop.     *)
(* There is no lock in the source, so every load_db, save_db and file      *)
(* system call is its own atomic step and the steps of different threads   *)
(* interleave freely.                                                      *)
(***************************************************************************)
EXTENDS Integers, Sequences, FiniteSets, TLC

\* ------------------------------------------------------------------ bounds
MaxJobs == 2        \* job creations per run
MaxRotate == 2      \* rotate requests in a run that starts with an empty downloads/
SeqRotate == 4      \* rotate requests in a run that starts with a finished job
MaxSeg == 1         \* files the packaging process writes to one HLS directory
TickHours == 24     \* hours the clock advances per Tick
MaxClock == 48      \* last clock value
MaxHolders == 2     \* threads that hold a loaded db at once, where a run caps them

\* ------------------------------------------------------- program constants
RetentionHours == 24   \* timedelta(hours=24)

Jobs == 1..MaxJobs
RotHandlers == 1..2    \* concurrent rotate requests
Angles == {"90", "180", "270", "45"}   \* "45" stands for every unmapped angle

\* ---------------------------------------------------------------- paths
NoPath == [kind |-> "none", id |-> 0]                 \* the "" of a new record
Mp4Path(id) == [kind |-> "mp4", id |-> id]            \* downloads/<id>.mp4
HlsPath(id) == [kind |-> "hls", id |-> id]            \* downloads/<id>_hls
\* input_file.replace(".mp4", "_rotated.mp4"); "" has nothing to replace
RotatedPath(p) == IF p.kind = "mp4" THEN [kind |-> "rotated", id |-> p.id] ELSE p

\* ------------------------------------------------- the mapping id -> record
\* A python dict keeps insertion order and json keeps it across save and load:
\* a mapping is the sequence of its records in insertion order.
Has(db, id) == \E i \in 1..Len(db) : db[i].id = id
Get(db, id) == db[CHOOSE i \in 1..Len(db) : db[i].id = id]
Put(db, id, rec) == [i \in 1..Len(db) |-> IF db[i].id = id THEN rec ELSE db[i]]
Del(db, id) == SelectSeq(db, LAMBDA r : r.id # id)
Keys(db) == [i \in 1..Len(db) |-> db[i].id]

\* -------------------------------------------------------- the file system
Exists(d, p) == p \in DOMAIN d
Write(d, p, c) == (p :> c) @@ d
Remove(d, p) == [q \in DOMAIN d \ {p} |-> d[q]]

VARIABLES
  dbfile,    \* database.json: <<>> while it does not exist, else <<mapping>>
  disk,      \* regular files under downloads/: path -> content
  dirs,      \* directories under downloads/: path -> number of files inside
  clock,     \* datetime.utcnow(), in hours
  nextId,    \* the next uuid4 (ids are numbered in the order they are drawn)
  cpc, cdb,  \* home() POST requests: position, the db loaded at line 172
  wpc, wdb,  \* download_video threads: position, the db loaded at line 111
  dpc, ddb,  \* run_download threads: position, the db loaded at 139 / 144
  outcome,   \* what yt-dlp did for the job: "none", "ok" or "raised"
  hpc,       \* the detached ffmpeg HLS process of each job
  launches,  \* how many times start_hls_conversion ran for each job
  sw,        \* cleanup_loop: position and locals
  rot,       \* rotate() requests: position and locals
  rotLeft,   \* rotate requests the environment still makes
  cap,       \* how many threads the run lets hold a loaded db at once
  born,      \* the clock reading each job's record was created with
  swept,     \* the ids whose record a save of cleanup_loop took out of the store
  resp       \* the response the step sends, if it sends one

vars == <<dbfile, disk, dirs, clock, nextId, cpc, cdb, wpc, wdb, dpc, ddb,
          outcome, hpc, launches, sw, rot, rotLeft, cap, born, swept, resp>>

\* load_db(): {} when the file does not exist, else its content
load_db == IF dbfile = <<>> THEN <<>> ELSE dbfile[1]
\* save_db(db): the file now holds db, whatever it held
save_db(db) == <<db>>

SwIdle == [pc |-> "sleep", db |-> <<>>, now |-> 0, keys |-> <<>>, i |-> 1,
           changed |-> FALSE, listed |-> 0]
RotIdle == [pc |-> "idle", id |-> 0, angle |-> "", file |-> NoPath]
\* threads between a load_db and the save_db of what they loaded
Holders ==
  Cardinality({c \in Jobs : cpc[c] = "loaded"})
  + Cardinality({j \in Jobs : wpc[j] \in {"loaded", "poll", "launch", "launched", "except"}})
  + Cardinality({j \in Jobs : dpc[j] \in {"ok_loaded", "err_loaded"}})
  + (IF sw.pc \in {"sleep", "dead"} THEN 0 ELSE 1)

NoResp == [op |-> "none", outcome |-> "none", ids |-> <<>>, arg |-> ""]

\* What the freshly started process holds: nothing in downloads/.
\* holders is the cap on concurrent holders the run is explored under.
Boot(holders) ==
  /\ dbfile = <<>>
  /\ disk = <<>>
  /\ dirs = <<>>
  /\ clock = 0
  /\ nextId = 1
  /\ cpc = [c \in Jobs |-> "idle"]
  /\ cdb = [c \in Jobs |-> <<>>]
  /\ wpc = [j \in Jobs |-> "none"]
  /\ wdb = [j \in Jobs |-> <<>>]
  /\ dpc = [j \in Jobs |-> "none"]
  /\ ddb = [j \in Jobs |-> <<>>]
  /\ outcome = [j \in Jobs |-> "none"]
  /\ hpc = [j \in Jobs |-> "none"]
  /\ launches = [j \in Jobs |-> 0]
  /\ sw = SwIdle
  /\ rot = [h \in RotHandlers |-> RotIdle]
  /\ rotLeft = MaxRotate
  /\ cap = holders
  /\ born = [j \in Jobs |-> 0]
  /\ swept = {}
  /\ resp = NoResp

\* Every download thread and every retrieval thread may hold a db at once.
Init == Boot(2 * MaxJobs)

\* ---------------------------------------------------------------- time
Tick ==
  /\ clock + TickHours <= MaxClock
  /\ clock' = clock + TickHours
  /\ resp' = NoResp
  /\ UNCHANGED <<dbfile, disk, dirs, nextId, cpc, cdb, wpc, wdb, dpc, ddb,
                 outcome, hpc, launches, sw, rot, rotLeft, cap, born, swept>>

\* ------------------------------------------------------ home(), POST
\* line 172: db = load_db().  Request slots are taken in order.
CreateLoad(c) ==
  /\ cpc[c] = "idle"
  /\ Holders < cap
  /\ \A b \in Jobs : b < c => cpc[b] # "idle"
  /\ cpc' = [cpc EXCEPT ![c] = "loaded"]
  /\ cdb' = [cdb EXCEPT ![c] = load_db]
  /\ resp' = NoResp
  /\ UNCHANGED <<dbfile, disk, dirs, clock, nextId, wpc, wdb, dpc, ddb,
                 outcome, hpc, launches, sw, rot, rotLeft, cap, born, swept>>

\* NewRecord as it would be if home() assigned the paths itself
NewRecordWithPaths(id, now) ==
  [id |-> id, status |-> "processing", created |-> now,
   file |-> Mp4Path(id), hls |-> HlsPath(id), error |-> ""]

\* lines 179-186: the record of a new job
NewRecord(id, now) ==
  [id |-> id, status |-> "processing", created |-> now,
   file |-> NoPath, hls |-> NoPath, error |-> ""]

\* CreateSave that adds its record to the store as it is at the save, not
\* to the db loaded at line 172
CreateSaveOnCurrent(c) ==
  /\ cpc[c] = "loaded"
  /\ dbfile' = save_db(Append(load_db, NewRecord(nextId, clock)))
  /\ nextId' = nextId + 1
  /\ wpc' = [wpc EXCEPT ![nextId] = "start"]
  /\ cpc' = [cpc EXCEPT ![c] = "done"]
  /\ cdb' = [cdb EXCEPT ![c] = <<>>]
  /\ born' = [born EXCEPT ![nextId] = clock]
  /\ resp' = [op |-> "create", outcome |-> "redirect", ids |-> <<nextId>>,
              arg |-> ""]
  /\ UNCHANGED <<disk, dirs, clock, wdb, dpc, ddb, outcome, hpc, launches,
                 sw, rot, rotLeft, cap, swept>>

\* lines 177-196: draw the id, add the record to the db loaded at 172, save,
\* start the download_video thread, return the redirect.
CreateSave(c) ==
  /\ cpc[c] = "loaded"
  /\ dbfile' = save_db(Append(cdb[c], NewRecord(nextId, clock)))
  /\ nextId' = nextId + 1
  /\ wpc' = [wpc EXCEPT ![nextId] = "start"]
  /\ cpc' = [cpc EXCEPT ![c] = "done"]
  /\ cdb' = [cdb EXCEPT ![c] = <<>>]
  /\ born' = [born EXCEPT ![nextId] = clock]
  /\ resp' = [op |-> "create", outcome |-> "redirect", ids |-> <<nextId>>,
              arg |-> ""]
  /\ UNCHANGED <<disk, dirs, clock, wdb, dpc, ddb, outcome, hpc, launches,
                 sw, rot, rotLeft, cap, swept>>

\* ---------------------------------------------------- download_video
\* line 111: db = load_db()
WorkerLoad(j) ==
  /\ wpc[j] = "start"
  /\ Holders < cap
  /\ wpc' = [wpc EXCEPT ![j] = "loaded"]
  /\ wdb' = [wdb EXCEPT ![j] = load_db]
  /\ resp' = NoResp
  /\ UNCHANGED <<dbfile, disk, dirs, clock, nextId, cpc, cdb, dpc, ddb,
                 outcome, hpc, launches, sw, rot, rotLeft, cap, born, swept>>

\* lines 117-119 and 149: db[video_id] raises KeyError outside the try when
\* the record is not in the loaded db, and the thread dies; else the paths
\* are set on the loaded db, it is saved, and run_download is started.
WorkerAssign(j) ==
  /\ wpc[j] = "loaded"
  /\ IF Has(wdb[j], j)
       THEN LET db == Put(wdb[j], j, [Get(wdb[j], j) EXCEPT
                                        !.file = Mp4Path(j), !.hls = HlsPath(j)])
            IN /\ dbfile' = save_db(db)
               /\ wdb' = [wdb EXCEPT ![j] = db]
               /\ wpc' = [wpc EXCEPT ![j] = "poll"]
               /\ dpc' = [dpc EXCEPT ![j] = "running"]
       ELSE /\ wpc' = [wpc EXCEPT ![j] = "dead"]
            /\ wdb' = [wdb EXCEPT ![j] = <<>>]
            /\ UNCHANGED <<dbfile, dpc>>
  /\ resp' = NoResp
  /\ UNCHANGED <<disk, dirs, clock, nextId, cpc, cdb, ddb, outcome, hpc,
                 launches, sw, rot, rotLeft, cap, born, swept>>

\* WorkerPoll that leaves the loop whether or not the file is there
WorkerPollNoWait(j) ==
  /\ wpc[j] = "poll"
  /\ wpc' = [wpc EXCEPT ![j] = "launch"]
  /\ resp' = NoResp
  /\ UNCHANGED <<dbfile, disk, dirs, clock, nextId, cpc, cdb, wdb, dpc, ddb,
                 outcome, hpc, launches, sw, rot, rotLeft, cap, born, swept>>

\* lines 152-153: the poll leaves the loop once the artifact file exists;
\* while it does not, an iteration changes nothing.
WorkerPoll(j) ==
  /\ wpc[j] = "poll"
  /\ Exists(disk, Mp4Path(j))
  /\ wpc' = [wpc EXCEPT ![j] = "launch"]
  /\ resp' = NoResp
  /\ UNCHANGED <<dbfile, disk, dirs, clock, nextId, cpc, cdb, wdb, dpc, ddb,
                 outcome, hpc, launches, sw, rot, rotLeft, cap, born, swept>>

\* lines 155, 88-103: start_hls_conversion makes the directory and starts
\* ffmpeg detached; Popen can raise OSError, which line 160 catches.
WorkerLaunch(j) ==
  /\ wpc[j] = "launch"
  /\ dirs' = IF Exists(dirs, HlsPath(j)) THEN dirs ELSE Write(dirs, HlsPath(j), 0)
  /\ \/ /\ hpc' = [hpc EXCEPT ![j] = "running"]
        /\ launches' = [launches EXCEPT ![j] = @ + 1]
        /\ wpc' = [wpc EXCEPT ![j] = "launched"]
     \/ /\ wpc' = [wpc EXCEPT ![j] = "except"]
        /\ UNCHANGED <<hpc, launches>>
  /\ resp' = NoResp
  /\ UNCHANGED <<dbfile, disk, clock, nextId, cpc, cdb, wdb, dpc, ddb,
                 outcome, sw, rot, rotLeft, cap, born, swept>>

\* lines 157-158: status "processing" on the db loaded at line 111, saved
WorkerStatus(j) ==
  /\ wpc[j] = "launched"
  /\ dbfile' = save_db(Put(wdb[j], j, [Get(wdb[j], j) EXCEPT !.status = "processing"]))
  /\ wpc' = [wpc EXCEPT ![j] = "done"]
  /\ wdb' = [wdb EXCEPT ![j] = <<>>]
  /\ resp' = NoResp
  /\ UNCHANGED <<disk, dirs, clock, nextId, cpc, cdb, dpc, ddb, outcome, hpc,
                 launches, sw, rot, rotLeft, cap, born, swept>>

\* lines 160-163: status "failed" and the error on the db loaded at 111, saved
WorkerExcept(j) ==
  /\ wpc[j] = "except"
  /\ dbfile' = save_db(Put(wdb[j], j, [Get(wdb[j], j) EXCEPT
                                         !.status = "failed", !.error = "error"]))
  /\ wpc' = [wpc EXCEPT ![j] = "done"]
  /\ wdb' = [wdb EXCEPT ![j] = <<>>]
  /\ resp' = NoResp
  /\ UNCHANGED <<disk, dirs, clock, nextId, cpc, cdb, dpc, ddb, outcome, hpc,
                 launches, sw, rot, rotLeft, cap, born, swept>>

\* ------------------------------------------------------- run_download
Fresh == [o |-> 0, h |-> <<>>]   \* the retrieved video, as retrieved

\* lines 136-137, yt-dlp at work: the output file appears at the target path
RetrWrite(j) ==
  /\ dpc[j] = "running"
  /\ ~Exists(disk, Mp4Path(j))
  /\ disk' = Write(disk, Mp4Path(j), Fresh)
  /\ dpc' = [dpc EXCEPT ![j] = "writing"]
  /\ resp' = NoResp
  /\ UNCHANGED <<dbfile, dirs, clock, nextId, cpc, cdb, wpc, wdb, ddb,
                 outcome, hpc, launches, sw, rot, rotLeft, cap, born, swept>>

\* line 137 returns: the download succeeded and its file is at the target path
RetrOk(j) ==
  /\ dpc[j] \in {"running", "writing"}
  /\ disk' = IF Exists(disk, Mp4Path(j)) THEN disk ELSE Write(disk, Mp4Path(j), Fresh)
  /\ dpc' = [dpc EXCEPT ![j] = "ok"]
  /\ outcome' = [outcome EXCEPT ![j] = "ok"]
  /\ resp' = NoResp
  /\ UNCHANGED <<dbfile, dirs, clock, nextId, cpc, cdb, wpc, wdb, ddb, hpc,
                 launches, sw, rot, rotLeft, cap, born, swept>>

\* line 137 raises: the download failed, with or without a file written
RetrRaise(j) ==
  /\ dpc[j] \in {"running", "writing"}
  /\ dpc' = [dpc EXCEPT ![j] = "raised"]
  /\ outcome' = [outcome EXCEPT ![j] = "raised"]
  /\ resp' = NoResp
  /\ UNCHANGED <<dbfile, disk, dirs, clock, nextId, cpc, cdb, wpc, wdb, ddb,
                 hpc, launches, sw, rot, rotLeft, cap, born, swept>>

\* line 139: db = load_db()
RetrLoadOk(j) ==
  /\ dpc[j] = "ok"
  /\ Holders < cap
  /\ ddb' = [ddb EXCEPT ![j] = load_db]
  /\ dpc' = [dpc EXCEPT ![j] = "ok_loaded"]
  /\ resp' = NoResp
  /\ UNCHANGED <<dbfile, disk, dirs, clock, nextId, cpc, cdb, wpc, wdb,
                 outcome, hpc, launches, sw, rot, rotLeft, cap, born, swept>>

\* lines 140-141: status "ready" on the db loaded at 139, saved; a KeyError
\* of db[video_id] is inside the try and lands in the except clause.
RetrSaveOk(j) ==
  /\ dpc[j] = "ok_loaded"
  /\ IF Has(ddb[j], j)
       THEN /\ dbfile' = save_db(Put(ddb[j], j, [Get(ddb[j], j) EXCEPT !.status = "ready"]))
            /\ dpc' = [dpc EXCEPT ![j] = "done"]
       ELSE /\ dpc' = [dpc EXCEPT ![j] = "raised"]
            /\ UNCHANGED dbfile
  /\ ddb' = [ddb EXCEPT ![j] = <<>>]
  /\ resp' = NoResp
  /\ UNCHANGED <<disk, dirs, clock, nextId, cpc, cdb, wpc, wdb, outcome, hpc,
                 launches, sw, rot, rotLeft, cap, born, swept>>

\* line 144: db = load_db() of the except clause
RetrLoadErr(j) ==
  /\ dpc[j] = "raised"
  /\ Holders < cap
  /\ ddb' = [ddb EXCEPT ![j] = load_db]
  /\ dpc' = [dpc EXCEPT ![j] = "err_loaded"]
  /\ resp' = NoResp
  /\ UNCHANGED <<dbfile, disk, dirs, clock, nextId, cpc, cdb, wpc, wdb,
                 outcome, hpc, launches, sw, rot, rotLeft, cap, born, swept>>

\* lines 145-147: status "failed" and the error on the db loaded at 144,
\* saved; a KeyError here is uncaught and the thread dies.
RetrSaveErr(j) ==
  /\ dpc[j] = "err_loaded"
  /\ IF Has(ddb[j], j)
       THEN /\ dbfile' = save_db(Put(ddb[j], j, [Get(ddb[j], j) EXCEPT
                                                   !.status = "failed", !.error = "error"]))
            /\ dpc' = [dpc EXCEPT ![j] = "done"]
       ELSE /\ dpc' = [dpc EXCEPT ![j] = "dead"]
            /\ UNCHANGED dbfile
  /\ ddb' = [ddb EXCEPT ![j] = <<>>]
  /\ resp' = NoResp
  /\ UNCHANGED <<disk, dirs, clock, nextId, cpc, cdb, wpc, wdb, outcome, hpc,
                 launches, sw, rot, rotLeft, cap, born, swept>>

\* ------------------------------------- the detached ffmpeg HLS process
\* lines 91-103: ffmpeg appends the playlist and segments to the directory,
\* for as long as it runs; nobody waits for it or reads its exit status
HlsWrite(j) ==
  /\ hpc[j] = "running"
  /\ Exists(dirs, HlsPath(j))
  /\ dirs[HlsPath(j)] < MaxSeg
  /\ dirs' = [dirs EXCEPT ![HlsPath(j)] = @ + 1]
  /\ resp' = NoResp
  /\ UNCHANGED <<dbfile, disk, clock, nextId, cpc, cdb, wpc, wdb, dpc, ddb,
                 outcome, hpc, launches, sw, rot, rotLeft, cap, born, swept>>

\* -------------------------------------------------------- cleanup_loop
\* now - created > timedelta(hours=24)
Expired(rec, now) == now - rec.created > RetentionHours

\* lines 51-56, after time.sleep returned: load the db, read the clock
SweepWake ==
  /\ sw.pc = "sleep"
  /\ Holders < cap
  /\ sw' = [SwIdle EXCEPT !.pc = "scan", !.db = load_db, !.now = clock,
                          !.keys = Keys(load_db)]
  /\ resp' = NoResp
  /\ UNCHANGED <<dbfile, disk, dirs, clock, nextId, cpc, cdb, wpc, wdb, dpc,
                 ddb, outcome, hpc, launches, rot, rotLeft, cap, born, swept>>

\* lines 72-73: del db[vid]; changed = True; on to the next key
SwDeleted == [sw EXCEPT !.pc = "scan", !.db = Del(sw.db, sw.keys[sw.i]),
                        !.changed = TRUE, !.i = @ + 1, !.listed = 0]

\* lines 56-62: the next key; a job that is not expired is skipped, for an
\* expired one the artifact path is tested with os.path.exists
SweepScan ==
  /\ sw.pc = "scan"
  /\ sw.i <= Len(sw.keys)
  /\ LET rec == Get(sw.db, sw.keys[sw.i]) IN
       sw' = IF ~Expired(rec, sw.now) THEN [sw EXCEPT !.i = @ + 1]
             ELSE IF rec.file # NoPath /\ Exists(disk, rec.file)
                    THEN [sw EXCEPT !.pc = "rmfile"]
                    ELSE [sw EXCEPT !.pc = "chkhls"]
  /\ resp' = NoResp
  /\ UNCHANGED <<dbfile, disk, dirs, clock, nextId, cpc, cdb, wpc, wdb, dpc,
                 ddb, outcome, hpc, launches, rot, rotLeft, cap, born, swept>>

\* line 63: os.remove(filepath); FileNotFoundError ends the thread
SweepRemoveFile ==
  /\ sw.pc = "rmfile"
  /\ LET p == Get(sw.db, sw.keys[sw.i]).file IN
       IF Exists(disk, p)
         THEN /\ disk' = Remove(disk, p)
              /\ sw' = [sw EXCEPT !.pc = "chkhls"]
         ELSE /\ sw' = [SwIdle EXCEPT !.pc = "dead"]
              /\ UNCHANGED disk
  /\ resp' = NoResp
  /\ UNCHANGED <<dbfile, dirs, clock, nextId, cpc, cdb, wpc, wdb, dpc, ddb,
                 outcome, hpc, launches, rot, rotLeft, cap, born, swept>>

\* lines 66-68: os.path.exists(hls_dir) and os.listdir(hls_dir); without a
\* directory the record is deleted from the loaded db at once
SweepCheckHls ==
  /\ sw.pc = "chkhls"
  /\ LET p == Get(sw.db, sw.keys[sw.i]).hls IN
       sw' = IF p # NoPath /\ Exists(dirs, p)
               THEN [sw EXCEPT !.pc = "rmhls", !.listed = dirs[p]]
               ELSE SwDeleted
  /\ resp' = NoResp
  /\ UNCHANGED <<dbfile, disk, dirs, clock, nextId, cpc, cdb, wpc, wdb, dpc,
                 ddb, outcome, hpc, launches, rot, rotLeft, cap, born, swept>>

\* lines 68-73: os.remove of every listed file, then os.rmdir, which raises
\* OSError and ends the thread when a file was added after the listing
SweepRemoveHls ==
  /\ sw.pc = "rmhls"
  /\ LET p == Get(sw.db, sw.keys[sw.i]).hls
         left == dirs[p] - sw.listed
     IN IF left = 0
          THEN /\ dirs' = Remove(dirs, p)
               /\ sw' = SwDeleted
          ELSE /\ dirs' = [dirs EXCEPT ![p] = left]
               /\ sw' = [SwIdle EXCEPT !.pc = "dead"]
  /\ resp' = NoResp
  /\ UNCHANGED <<dbfile, disk, clock, nextId, cpc, cdb, wpc, wdb, dpc, ddb,
                 outcome, hpc, launches, rot, rotLeft, cap, born, swept>>

\* lines 75-78: after the last key, save the db if a record was deleted,
\* then sleep
SweepSave ==
  /\ sw.pc = "scan"
  /\ sw.i > Len(sw.keys)
  /\ dbfile' = IF sw.changed THEN save_db(sw.db) ELSE dbfile
  /\ swept' = IF sw.changed
                THEN swept \cup {j \in Jobs : /\ \E k \in 1..Len(sw.keys) : sw.keys[k] = j
                                              /\ ~Has(sw.db, j)
                                              /\ Has(load_db, j)}
                ELSE swept
  /\ sw' = SwIdle
  /\ resp' = NoResp
  /\ UNCHANGED <<disk, dirs, clock, nextId, cpc, cdb, wpc, wdb, dpc, ddb,
                 outcome, hpc, launches, rot, rotLeft, cap, born>>

\* -------------------------------------------------------------- rotate
\* Transpose with the 270 entry turning the same way as the 90 entry
TransposeSameSense == ("90" :> <<1>>) @@ ("180" :> <<2, 2>>) @@ ("270" :> <<1>>)

\* Transpose with a filter chain for the unmapped angle as well
TransposeAnyAngle ==
  ("90" :> <<1>>) @@ ("180" :> <<2, 2>>) @@ ("270" :> <<2>>) @@ ("45" :> <<1>>)

\* lines 318-322: the -vf filter chain of each angle, as the transpose
\* directions it applies in order
Transpose == ("90" :> <<1>>) @@ ("180" :> <<2, 2>>) @@ ("270" :> <<2>>)

\* ffmpeg's transpose filter on the orientation of a frame, counted in
\* quarter turns clockwise: direction 1 turns clockwise, 2 counterclockwise
TransposeOnce(dir, o) == IF dir = 1 THEN (o + 1) % 4 ELSE (o + 3) % 4

RECURSIVE ApplyFilter(_, _)
ApplyFilter(chain, o) ==
  IF chain = <<>> THEN o
  ELSE ApplyFilter(Tail(chain), TransposeOnce(Head(chain), o))

\* lines 324-334: what ffmpeg writes to the output file from the input file
Transcoded(c, angle) ==
  [o |-> ApplyFilter(Transpose[angle], c.o), h |-> Append(c.h, angle)]

\* the response to rotate(id, angle)
RotResp(id, angle, out) ==
  [op |-> "rotate", outcome |-> out, ids |-> <<id>>, arg |-> angle]

\* RotateLoad without the test of line 310: db[video_id] raises KeyError, a
\* 500 response
RotateLoadNoIdCheck(h, id, angle) ==
  /\ rot[h].pc = "idle"
  /\ rotLeft > 0
  /\ rotLeft' = rotLeft - 1
  /\ IF ~Has(load_db, id)
       THEN /\ resp' = RotResp(id, angle, "error")
            /\ UNCHANGED rot
       ELSE IF angle \notin DOMAIN Transpose
         THEN /\ resp' = RotResp(id, angle, "error")
              /\ UNCHANGED rot
         ELSE /\ rot' = [rot EXCEPT ![h] = [pc |-> "run", id |-> id, angle |-> angle,
                                            file |-> Get(load_db, id).file]]
              /\ resp' = NoResp
  /\ UNCHANGED <<dbfile, disk, dirs, clock, nextId, cpc, cdb, wpc, wdb, dpc,
                 ddb, outcome, hpc, launches, sw, cap, born, swept>>

\* lines 308-322: load the db; abort(404) for an id that is not in it; read
\* the job's path; the dict lookup of the angle raises KeyError (a 500
\* response) for an angle that is not a key
RotateLoad(h, id, angle) ==
  /\ rot[h].pc = "idle"
  /\ rotLeft > 0
  /\ rotLeft' = rotLeft - 1
  /\ IF ~Has(load_db, id)
       THEN /\ resp' = RotResp(id, angle, "notfound")
            /\ UNCHANGED rot
       ELSE IF angle \notin DOMAIN Transpose
         THEN /\ resp' = RotResp(id, angle, "error")
              /\ UNCHANGED rot
         ELSE /\ rot' = [rot EXCEPT ![h] = [pc |-> "run", id |-> id, angle |-> angle,
                                            file |-> Get(load_db, id).file]]
              /\ resp' = NoResp
  /\ UNCHANGED <<dbfile, disk, dirs, clock, nextId, cpc, cdb, wpc, wdb, dpc,
                 ddb, outcome, hpc, launches, sw, cap, born, swept>>

\* line 334: subprocess.run(cmd), exit status ignored. With the input file
\* there, ffmpeg writes the transformed video to the output path or fails
\* and writes nothing; without the input file it writes nothing.
RotateRun(h) ==
  /\ rot[h].pc = "run"
  /\ rot' = [rot EXCEPT ![h].pc = "remove"]
  /\ \/ /\ Exists(disk, rot[h].file)
        /\ disk' = Write(disk, RotatedPath(rot[h].file),
                         Transcoded(disk[rot[h].file], rot[h].angle))
     \/ UNCHANGED disk
  /\ resp' = NoResp
  /\ UNCHANGED <<dbfile, dirs, clock, nextId, cpc, cdb, wpc, wdb, dpc, ddb,
                 outcome, hpc, launches, sw, rotLeft, cap, born, swept>>

\* line 336: os.remove(input_file); FileNotFoundError is a 500 response
RotateRemove(h) ==
  /\ rot[h].pc = "remove"
  /\ IF Exists(disk, rot[h].file)
       THEN /\ disk' = Remove(disk, rot[h].file)
            /\ rot' = [rot EXCEPT ![h].pc = "rename"]
            /\ resp' = NoResp
       ELSE /\ rot' = [rot EXCEPT ![h] = RotIdle]
            /\ resp' = RotResp(rot[h].id, rot[h].angle, "error")
            /\ UNCHANGED disk
  /\ UNCHANGED <<dbfile, dirs, clock, nextId, cpc, cdb, wpc, wdb, dpc, ddb,
                 outcome, hpc, launches, sw, rotLeft, cap, born, swept>>

\* RotateRename that leaves the output where ffmpeg wrote it and saves that
\* path as the record's file
RotateRenameSavesPath(h) ==
  /\ rot[h].pc = "rename"
  /\ rot' = [rot EXCEPT ![h] = RotIdle]
  /\ LET out == RotatedPath(rot[h].file) IN
       IF Exists(disk, out)
         THEN /\ dbfile' = IF Has(load_db, rot[h].id)
                             THEN save_db(Put(load_db, rot[h].id,
                                    [Get(load_db, rot[h].id) EXCEPT !.file = out]))
                             ELSE dbfile
              /\ resp' = RotResp(rot[h].id, rot[h].angle, "redirect")
         ELSE /\ resp' = RotResp(rot[h].id, rot[h].angle, "error")
              /\ UNCHANGED dbfile
  /\ UNCHANGED <<disk, dirs, clock, nextId, cpc, cdb, wpc, wdb, dpc, ddb,
                 outcome, hpc, launches, sw, rotLeft, cap, born, swept>>

\* lines 337-339: os.rename(output_file, input_file), then the redirect;
\* FileNotFoundError is a 500 response
RotateRename(h) ==
  /\ rot[h].pc = "rename"
  /\ rot' = [rot EXCEPT ![h] = RotIdle]
  /\ LET out == RotatedPath(rot[h].file) IN
       IF Exists(disk, out)
         THEN /\ disk' = Write(Remove(disk, out), rot[h].file, disk[out])
              /\ resp' = RotResp(rot[h].id, rot[h].angle, "redirect")
         ELSE /\ resp' = RotResp(rot[h].id, rot[h].angle, "error")
              /\ UNCHANGED disk
  /\ UNCHANGED <<dbfile, dirs, clock, nextId, cpc, cdb, wpc, wdb, dpc, ddb,
                 outcome, hpc, launches, sw, rotLeft, cap, born, swept>>

\* ------------------------------------------------------------- readers
\* Videos without the [::-1]
VideosInsertionOrder(db) == db

\* line 198: list(db.values())[::-1]
Videos(db) == [i \in 1..Len(db) |-> db[Len(db) + 1 - i]]

\* home(), GET, lines 172 and 198-218: the page lists the loaded records
HomeGet ==
  /\ resp' = [op |-> "list", outcome |-> "ok", ids |-> Keys(Videos(load_db)),
              arg |-> ""]
  /\ UNCHANGED <<dbfile, disk, dirs, clock, nextId, cpc, cdb, wpc, wdb, dpc,
                 ddb, outcome, hpc, launches, sw, rot, rotLeft, cap, born, swept>>

\* video_page(), lines 223-272: "Not found", or the page with the status
VideoPage(id) ==
  /\ resp' = [op |-> "get",
              outcome |-> IF Has(load_db, id) THEN Get(load_db, id).status
                          ELSE "notfound",
              ids |-> <<id>>, arg |-> ""]
  /\ UNCHANGED <<dbfile, disk, dirs, clock, nextId, cpc, cdb, wpc, wdb, dpc,
                 ddb, outcome, hpc, launches, sw, rot, rotLeft, cap, born, swept>>

\* ------------------------------------------------------------ the system
Creations == \E c \in Jobs : CreateLoad(c) \/ CreateSave(c)

Workers ==
  \E j \in Jobs : \/ WorkerLoad(j) \/ WorkerAssign(j) \/ WorkerPoll(j)
                  \/ WorkerLaunch(j) \/ WorkerStatus(j) \/ WorkerExcept(j)

Retrievals ==
  \E j \in Jobs : \/ RetrWrite(j) \/ RetrOk(j) \/ RetrRaise(j)
                  \/ RetrLoadOk(j) \/ RetrSaveOk(j)
                  \/ RetrLoadErr(j) \/ RetrSaveErr(j)

Packaging == \E j \in Jobs : HlsWrite(j)

Sweeper ==
  \/ SweepWake \/ SweepScan \/ SweepRemoveFile \/ SweepCheckHls
  \/ SweepRemoveHls \/ SweepSave

Rotations ==
  \/ \E h \in RotHandlers, id \in Jobs, a \in Angles : RotateLoad(h, id, a)
  \/ \E h \in RotHandlers : RotateRun(h) \/ RotateRemove(h) \/ RotateRename(h)

Pages == HomeGet \/ \E id \in Jobs : VideoPage(id)

\* The first day of the service: jobs are created, downloaded and packaged;
\* no job is old enough for cleanup_loop to touch it,
\* and nobody asks for a rotation.
Next == Creations \/ Workers \/ Retrievals \/ Packaging

Spec == Init /\ [][Next]_vars

\* The same with the download threads scheduled fairly: a thread that can
\* take its next step eventually takes it.  yt-dlp returns or raises.
Fairness ==
  /\ \A c \in Jobs : WF_vars(CreateLoad(c)) /\ WF_vars(CreateSave(c))
  /\ \A j \in Jobs :
       /\ WF_vars(WorkerLoad(j)) /\ WF_vars(WorkerAssign(j))
       /\ WF_vars(WorkerPoll(j)) /\ WF_vars(WorkerLaunch(j))
       /\ WF_vars(WorkerStatus(j)) /\ WF_vars(WorkerExcept(j))
       /\ WF_vars(RetrOk(j) \/ RetrRaise(j))
       /\ WF_vars(RetrLoadOk(j)) /\ WF_vars(RetrSaveOk(j))
       /\ WF_vars(RetrLoadErr(j)) /\ WF_vars(RetrSaveErr(j))

FairSpec == Spec /\ Fairness

\* The service over days: the clock advances and cleanup_loop runs next to
\* the creations and downloads, and the list page is read.  In these runs at
\* most MaxHolders threads hold a loaded db at once, yt-dlp leaves its file at
\* the target path when it returns, not before, and ffmpeg writes no segment.
DownloadsAtOnce ==
  \E j \in Jobs : \/ RetrOk(j) \/ RetrRaise(j)
                  \/ RetrLoadOk(j) \/ RetrSaveOk(j)
                  \/ RetrLoadErr(j) \/ RetrSaveErr(j)

NextSweep ==
  Tick \/ Creations \/ Workers \/ DownloadsAtOnce \/ Sweeper \/ HomeGet

InitSweep == Boot(MaxHolders)

SweepSpec == InitSweep /\ [][NextSweep]_vars

\* One finished job, as the first day leaves it: its record with the paths
\* assigned, its artifact file and its HLS directory on disk, its threads
\* ended.  The status is "ready", or "failed" after a download that raised
\* with the file written, or "processing" where line 158 wrote last.
FinishedJob(st) ==
  [id |-> 1, status |-> st, created |-> 0, file |-> Mp4Path(1),
   hls |-> HlsPath(1), error |-> IF st = "failed" THEN "error" ELSE ""]

FinishedService(rotations) ==
  /\ \E st \in {"ready", "failed", "processing"} :
       /\ dbfile = save_db(<<FinishedJob(st)>>)
       /\ outcome = [j \in Jobs |-> IF j # 1 THEN "none"
                                    ELSE IF st = "failed" THEN "raised" ELSE "ok"]
  /\ disk = Write(<<>>, Mp4Path(1), Fresh)
  /\ dirs = Write(<<>>, HlsPath(1), 0)
  /\ clock = 0
  /\ nextId = 2
  /\ cpc = [c \in Jobs |-> IF c = 1 THEN "done" ELSE "idle"]
  /\ cdb = [c \in Jobs |-> <<>>]
  /\ wpc = [j \in Jobs |-> IF j = 1 THEN "done" ELSE "none"]
  /\ wdb = [j \in Jobs |-> <<>>]
  /\ dpc = [j \in Jobs |-> IF j = 1 THEN "done" ELSE "none"]
  /\ ddb = [j \in Jobs |-> <<>>]
  /\ hpc = [j \in Jobs |-> IF j = 1 THEN "running" ELSE "none"]
  /\ launches = [j \in Jobs |-> IF j = 1 THEN 1 ELSE 0]
  /\ sw = SwIdle
  /\ rot = [h \in RotHandlers |-> RotIdle]
  /\ rotLeft = rotations
  /\ cap = 2 * MaxJobs
  /\ born = [j \in Jobs |-> 0]
  /\ swept = {}
  /\ resp = NoResp

InitRot == FinishedService(SeqRotate)

\* Rotation requests and page reads on the finished job, within its first
\* day.
NextRot == Rotations \/ Pages

RotSpec == InitRot /\ [][NextRot]_vars

\* The finished job over the following days: the clock advances and
\* cleanup_loop runs while the job's ffmpeg HLS process still writes and
\* rotation requests come in.
InitKeep == FinishedService(MaxRotate)

NextKeep == Tick \/ Sweeper \/ Packaging \/ Rotations

KeepSpec == InitKeep /\ [][NextKeep]_vars

\* ------------------------------------------------------------ properties
\* the status the mapping db shows for job j
StatusIn(db, j) == IF Has(db, j) THEN Get(db, j).status ELSE "absent"

\* C1: once the store shows a job as ready or failed, no step changes that
\* status to anything else; the record can only disappear.
C1_TerminalStatus ==
  [][\A j \in Jobs :
       StatusIn(load_db, j) \in {"ready", "failed"}
         => StatusIn(load_db', j) \in {StatusIn(load_db, j), "absent"}]_vars

C3_OutcomeRecorded ==
  \A j \in Jobs :
    /\ <>(outcome[j] = "ok") =>
         <>(StatusIn(load_db, j) = "ready" /\ Exists(disk, Mp4Path(j)))
    /\ <>(outcome[j] = "raised") =>
         <>(StatusIn(load_db, j) = "failed" /\ Get(load_db, j).error # "")

\* C4: every job the store shows as ready has its artifact file on disk.
C4_ReadyHasArtifact ==
  \A j \in Jobs :
    StatusIn(load_db, j) = "ready" => Exists(disk, Get(load_db, j).file)

\* C5: when a cycle of cleanup_loop ends, every job created more than 24
\* hours before the cycle's clock reading is out of the store, and its
\* artifact file and HLS directory are off the disk.
C5_ExpiredGoneAfterCycle ==
  [][SweepSave =>
       \A j \in Jobs :
         (j < nextId /\ sw.now - born[j] > RetentionHours) =>
           /\ ~Has(load_db', j)
           /\ ~Exists(disk', Mp4Path(j))
           /\ ~Exists(dirs', HlsPath(j))]_vars

\* C6: rotate and video_page on an id that is not in the store answer
\* "not found" and end there, and the step changes neither the store nor
\* any file or directory.
C6_UnknownIdNotFound ==
  /\ [][\A h \in RotHandlers, id \in Jobs, a \in Angles :
          (RotateLoad(h, id, a) /\ ~Has(load_db, id)) =>
            /\ resp'.outcome = "notfound"
            /\ rot'[h].pc = "idle"
            /\ UNCHANGED <<dbfile, disk, dirs>>]_vars
  /\ [][\A id \in Jobs :
          (VideoPage(id) /\ ~Has(load_db, id)) =>
            /\ resp'.outcome = "notfound"
            /\ UNCHANGED <<dbfile, disk, dirs>>]_vars

\* C6 witness: a rotate request for an id that is not in the store has been
\* answered "not found".
C6_Witness ==
  /\ resp.op = "rotate"
  /\ resp.outcome = "notfound"
  /\ ~Has(load_db, resp.ids[1])

\* C7: rotate on a job of the store with an angle other than 90, 180, 270
\* answers with an error in its first step, which changes neither the store
\* nor any file; no request with such an angle ever gets to run ffmpeg.
C7_InvalidAngleError ==
  /\ [][\A h \in RotHandlers, id \in Jobs, a \in Angles :
          (RotateLoad(h, id, a) /\ Has(load_db, id)
             /\ a \notin {"90", "180", "270"}) =>
            /\ resp'.outcome = "error"
            /\ rot'[h].pc = "idle"
            /\ UNCHANGED <<dbfile, disk, dirs>>]_vars
  /\ [](\A h \in RotHandlers :
          rot[h].pc # "idle" => rot[h].angle \in {"90", "180", "270"})

\* C7 witness: a rotate request with the unmapped angle on a job of the
\* store has been answered with an error, the artifact file still there.
C7_Witness ==
  /\ resp.op = "rotate"
  /\ resp.arg = "45"
  /\ resp.outcome = "error"
  /\ Has(load_db, resp.ids[1])
  /\ Exists(disk, Get(load_db, resp.ids[1]).file)

\* half a turn away from the orientation of the retrieved video
HalfTurn == (Fresh.o + 2) % 4

\* C8: with orientation counted in quarter turns modulo 4, a file that came
\* out of four 90 rotations in sequence has the orientation of the retrieved
\* video, so has one that came out of a 90 and then a 270 rotation, and one
\* that came out of a single 180 rotation has the orientation of one that
\* came out of two 90 rotations.
C8_RotationAlgebra ==
  \A p \in DOMAIN disk :
    /\ disk[p].h = <<"90", "90", "90", "90">> => disk[p].o = Fresh.o
    /\ disk[p].h = <<"90", "270">> => disk[p].o = Fresh.o
    /\ disk[p].h = <<"180">> => disk[p].o = HalfTurn
    /\ disk[p].h = <<"90", "90">> => disk[p].o = HalfTurn

\* C8 witness: the artifact is in place after four 90 rotations in sequence.
C8_Witness ==
  /\ Exists(disk, Mp4Path(1))
  /\ disk[Mp4Path(1)].h = <<"90", "90", "90", "90">>

\* C9: the list page shows the jobs most recent first: of two jobs on it,
\* the one created later (the later id, the later or equal clock reading)
\* comes first.
C9_MostRecentFirst ==
  resp.op = "list" =>
    \A i \in 1..Len(resp.ids), k \in 1..Len(resp.ids) :
      i < k => /\ resp.ids[i] > resp.ids[k]
               /\ born[resp.ids[i]] >= born[resp.ids[k]]

\* C9 witness: the list page shows two jobs.
C9_Witness ==
  /\ resp.op = "list"
  /\ Len(resp.ids) = 2

\* C10: the save that records a download's outcome leaves every other job
\* as the store had it just before: same records, same ids.
C10_OutcomeWriteFrame ==
  [][\A j \in Jobs :
       ((RetrSaveOk(j) \/ RetrSaveErr(j)) /\ Has(ddb[j], j)) =>
         Del(load_db', j) = Del(load_db, j)]_vars

\* C11: no step of a rotate request writes the store, so the job's file
\* path in it stays what the request read; and the rename step of a request
\* that finds the transcoder's output moves exactly that output to the path
\* the request read from the record, leaving nothing at the output path.
C11_RotateLeavesStore ==
  [][/\ Rotations => dbfile' = dbfile
     /\ \A h \in RotHandlers :
          (RotateRename(h) /\ Exists(disk, RotatedPath(rot[h].file))) =>
            /\ Has(load_db', rot[h].id)
            /\ Get(load_db', rot[h].id).file = rot[h].file
            /\ Exists(disk', rot[h].file)
            /\ disk'[rot[h].file] = disk[RotatedPath(rot[h].file)]
            /\ ~Exists(disk', RotatedPath(rot[h].file))]_vars

\* a rotate request has answered with the redirect and the artifact at the
\* record's path is a transcoder output
C11_Witness ==
  /\ resp.op = "rotate" /\ resp.outcome = "redirect"
  /\ Has(load_db, 1)
  /\ Exists(disk, Get(load_db, 1).file)
  /\ Len(disk[Get(load_db, 1).file].h) > 0

\* C12: start_hls_conversion runs at most once for a job, and only from the
\* worker's position after the poll loop, which the worker reaches only in a
\* step that sees the artifact file on disk; so packaging has never been
\* launched for a job whose artifact file has not existed, and the ffmpeg
\* HLS process of a job starts only in that launch.
C12_PackagingOnceAfterFile ==
  [][\A j \in Jobs :
       /\ launches'[j] <= 1
       /\ launches'[j] > launches[j] => wpc[j] = "launch"
       /\ (wpc'[j] = "launch" /\ wpc[j] # "launch") => Exists(disk, Mp4Path(j))
       /\ launches'[j] > 0 => Exists(disk', Mp4Path(j))
       /\ hpc'[j] # hpc[j] => launches'[j] > launches[j]]_vars

\* packaging has been launched for a job
C12_Witness ==
  \E j \in Jobs : launches[j] = 1 /\ hpc[j] = "running" /\ wpc[j] = "launched"

\* C13: when the worker saves status processing after launching packaging
\* (line 158), the store already shows the job as processing.
C13_ProcessingWriteIdempotent ==
  [][\A j \in Jobs :
       WorkerStatus(j) => StatusIn(load_db, j) = "processing"]_vars

\* C14: while yt-dlp has raised for a job and there is no artifact file at
\* the job's path (in these runs no step removes a file, so there never was
\* one), the worker is still in its poll loop and packaging has not been
\* launched for the job, and run_download has not died before recording the
\* failure.
C14_FailedWithoutFile ==
  \A j \in Jobs :
    (outcome[j] = "raised" /\ ~Exists(disk, Mp4Path(j))) =>
      /\ wpc[j] = "poll"
      /\ launches[j] = 0 /\ hpc[j] = "none"
      /\ dpc[j] # "dead"

\* C15: every save writes the saver's own loaded snapshot over the store:
\* after the save of a creation, of the worker, of run_download or of the
\* sweeper, the records of all other jobs are the ones the saver loaded,
\* whatever the store held just before (the last writer wins).  The lost
\* update this allows is reached in C15_Witness.
C15_LastWriterWins ==
  [][/\ \A c \in Jobs : CreateSave(c) => Del(load_db', nextId) = cdb[c]
     /\ \A j \in Jobs :
          /\ ((WorkerAssign(j) /\ Has(wdb[j], j)) \/ WorkerStatus(j)
                \/ WorkerExcept(j))
               => Del(load_db', j) = Del(wdb[j], j)
          /\ ((RetrSaveOk(j) \/ RetrSaveErr(j)) /\ Has(ddb[j], j))
               => Del(load_db', j) = Del(ddb[j], j)
     /\ (SweepSave /\ sw.changed) => load_db' = sw.db]_vars

\* a job whose creation saved its record no more than 24 hours ago is not
\* in the store: no del of the sweeper removed it (a job that young is not
\* expired at any clock reading so far), the save of a writer that had
\* loaded before the creation saved did
C15_Witness ==
  \E j \in Jobs :
    /\ j < nextId
    /\ clock - born[j] <= RetentionHours
    /\ ~Has(load_db, j)

\* C16: a cycle of cleanup_loop takes from the store and from the disk only
\* what belongs to jobs older than 24 hours at the cycle's clock reading:
\* its save leaves every record in place that is not expired at that
\* reading, a job created during the cycle included; the files and the
\* directory it removes belong to an expired job; and a cycle that deleted
\* no record writes nothing to the store.
C16_SweepsOnlyExpired ==
  [][/\ SweepSave =>
          /\ \A j \in Jobs :
               (Has(load_db, j) /\ ~Expired(Get(load_db, j), sw.now))
                 => Has(load_db', j)
          /\ Len(sw.db) = Len(sw.keys) => dbfile' = dbfile
     /\ (SweepRemoveFile \/ SweepRemoveHls) =>
          \A j \in Jobs :
            (\/ Exists(disk, Mp4Path(j)) /\ ~Exists(disk', Mp4Path(j))
             \/ Exists(dirs, HlsPath(j)) /\ ~Exists(dirs', HlsPath(j)))
              => sw.now - born[j] > RetentionHours]_vars

\* C17: the transcoder run, the os.remove and the os.rename of a rotate
\* request are never steps on a job the store shows as processing or failed.
C17_RotatesOnlyReady ==
  [][\A h \in RotHandlers :
       (RotateRun(h) \/ RotateRemove(h) \/ RotateRename(h))
         => StatusIn(load_db, rot[h].id) \notin {"processing", "failed"}]_vars

\* C18: an id whose record a save of cleanup_loop took out of the store is
\* not in the store again after any later step.
C18_SweptStaysGone ==
  \A j \in swept : ~Has(load_db, j)

\* C19: the db that download_video (line 111) or run_download (lines 139,
\* 144) has loaded to write its own job holds the job's record, and neither
\* thread has died of the KeyError raised for a missing record.
C19_OwnRecordPresent ==
  \A j \in Jobs :
    /\ wpc[j] = "loaded" => Has(wdb[j], j)
    /\ dpc[j] \in {"ok_loaded", "err_loaded"} => Has(ddb[j], j)
    /\ wpc[j] # "dead" /\ dpc[j] # "dead"

\* C20: cleanup_loop never ends: no step of a cycle raises out of the loop,
\* whatever rotations and packaging output run next to it.
C20_SweeperNeverStops ==
  sw.pc # "dead"
====
